---- MODULE Spec2Model ----
(***************************************************************************)
(* Model of the Solana program `signatures` (lib.rs): the entry point      *)
(* verify, and utils::sig_verify / utils::check_data, which validate that  *)
(* an instruction is a single-signature Ed25519Program instruction over a  *)
(* given message, signature and public key.                                *)
(*                                                                         *)
(* Byte buffers are sequences of 0..255.  Rust index i (0-based) is        *)
(* element i+1 of the sequence.                                            *)
(***************************************************************************)
EXTENDS Integers, Sequences, FiniteSets, TLC

VARIABLES
    tx,         \* the transaction: the sequence of instructions the sysvar exposes
    msg,        \* expected message bytes
    sig,        \* expected signature bytes
    pubkey,     \* expected public key bytes
    pc,         \* "ready" (inputs set up) or "done" (a call has returned)
    call,       \* which function was called last, and on which instruction
    ret,        \* what the call produced: its outcome and the reads of data it made
    change      \* how the payload was changed after the previous call, if it was

vars == <<tx, msg, sig, pubkey, pc, call, ret, change>>

----------------------------------------------------------------------------
(* Program constants *)

HEADER_LEN == 16
SIG_LEN    == 64
PUBKEY_LEN == 32
BODY_START == 112
SIG_START  == 48
U16_MAX    == 65535
U8_MAX     == 255

ED25519_ID == "Ed25519SigVerify111111111111111111111111111"
PROGRAM_ID == "DHxesXA69rUmz5AJ1CnLCQezUzQR5j7KKTwTp1zZPc9j"

Ok                    == "Ok"
SigVerificationFailed == "SigVerificationFailed"
InvalidArgument       == "InvalidArgument"
PanicIndex            == "panic: index out of range"
PanicUnwrap           == "panic: unwrap on TryFromIntError"
PanicOverflow         == "panic: attempt to add with overflow"

Byte == 0..U8_MAX

----------------------------------------------------------------------------
(* Integer conversions, as Rust computes them *)

\* `n as u16`: truncating cast of a usize
as_u16(n) == n % (U16_MAX + 1)

\* usize -> u16 through TryInto: fails when the value does not fit
try_into_u16_fits(n) == n <= U16_MAX

\* The two bytes of a u16 in big-endian order
u16_to_be_bytes(n) == <<n \div (U8_MAX + 1), n % (U8_MAX + 1)>>

\* u16::to_le_bytes / u8::to_le_bytes
u16_to_le_bytes(n) == <<n % (U8_MAX + 1), n \div (U8_MAX + 1)>>
u8_to_le_bytes(n)  == <<n>>

----------------------------------------------------------------------------
(* Slices: data[lo..hi] of Rust, 0-based and half-open *)

SliceInBounds(data, r) == r[1] <= r[2] /\ r[2] <= Len(data)

Slice(data, lo, hi) == SubSeq(data, lo + 1, hi)

\* The index and slice expressions of check_data, in program order, as ranges
check_data_ranges(data) ==
    << <<0, 1>>, <<1, 2>>, <<2, 4>>, <<4, 6>>, <<6, 8>>, <<8, 10>>,
       <<10, 12>>, <<12, 14>>, <<14, 16>>,
       <<HEADER_LEN, HEADER_LEN + PUBKEY_LEN>>,
       <<SIG_START, SIG_START + SIG_LEN>>,
       <<BODY_START, Len(data)>> >>

\* The reads check_data performs: all of them, or those up to the first
\* one that is out of bounds (which panics)
PerformedReads(data) ==
    LET rs  == check_data_ranges(data)
        bad == {k \in 1..Len(rs) : ~SliceInBounds(data, rs[k])}
        first == IF bad = {} THEN Len(rs)
                 ELSE CHOOSE k \in bad : \A j \in bad : k <= j
    IN  {rs[k] : k \in 1..first}

----------------------------------------------------------------------------
(* utils::check_data *)

\* The header comparison of check_data without the padding byte
header_mismatch_no_padding(data, exp_num_signatures, exp_signature_offset, exp_public_key_offset, exp_message_data_offset, exp_message_data_size) ==
    \/ Slice(data, 0, 1)   # u8_to_le_bytes(exp_num_signatures)
    \/ Slice(data, 2, 4)   # u16_to_le_bytes(exp_signature_offset)
    \/ Slice(data, 4, 6)   # u16_to_le_bytes(U16_MAX)
    \/ Slice(data, 6, 8)   # u16_to_le_bytes(exp_public_key_offset)
    \/ Slice(data, 8, 10)  # u16_to_le_bytes(U16_MAX)
    \/ Slice(data, 10, 12) # u16_to_le_bytes(exp_message_data_offset)
    \/ Slice(data, 12, 14) # u16_to_le_bytes(exp_message_data_size)
    \/ Slice(data, 14, 16) # u16_to_le_bytes(U16_MAX)

\* The header comparison of check_data reading only the low byte of the
\* message instruction index
header_mismatch_low_byte(data, exp_num_signatures, exp_signature_offset, exp_public_key_offset, exp_message_data_offset, exp_message_data_size) ==
    \/ Slice(data, 0, 1)   # u8_to_le_bytes(exp_num_signatures)
    \/ Slice(data, 1, 2)   # <<0>>
    \/ Slice(data, 2, 4)   # u16_to_le_bytes(exp_signature_offset)
    \/ Slice(data, 4, 6)   # u16_to_le_bytes(U16_MAX)
    \/ Slice(data, 6, 8)   # u16_to_le_bytes(exp_public_key_offset)
    \/ Slice(data, 8, 10)  # u16_to_le_bytes(U16_MAX)
    \/ Slice(data, 10, 12) # u16_to_le_bytes(exp_message_data_offset)
    \/ Slice(data, 12, 14) # u16_to_le_bytes(exp_message_data_size)
    \/ Slice(data, 14, 15) # <<U8_MAX>>

\* The header condition: some decoded field differs from its expected value
header_mismatch(data, exp_num_signatures, exp_signature_offset, exp_public_key_offset, exp_message_data_offset, exp_message_data_size) ==
    LET num_signatures               == Slice(data, 0, 1)
        padding                      == Slice(data, 1, 2)
        signature_offset             == Slice(data, 2, 4)
        signature_instruction_index  == Slice(data, 4, 6)
        public_key_offset            == Slice(data, 6, 8)
        public_key_instruction_index == Slice(data, 8, 10)
        message_data_offset          == Slice(data, 10, 12)
        message_data_size            == Slice(data, 12, 14)
        message_instruction_index    == Slice(data, 14, 16)
    IN
    \/ num_signatures               # u8_to_le_bytes(exp_num_signatures)
    \/ padding                      # <<0>>
    \/ signature_offset             # u16_to_le_bytes(exp_signature_offset)
    \/ signature_instruction_index  # u16_to_le_bytes(U16_MAX)
    \/ public_key_offset            # u16_to_le_bytes(exp_public_key_offset)
    \/ public_key_instruction_index # u16_to_le_bytes(U16_MAX)
    \/ message_data_offset          # u16_to_le_bytes(exp_message_data_offset)
    \/ message_data_size            # u16_to_le_bytes(exp_message_data_size)
    \/ message_instruction_index    # u16_to_le_bytes(U16_MAX)

\* The argument comparison of check_data without the message
args_mismatch_no_msg(data, m, s, p) ==
    \/ Slice(data, HEADER_LEN, HEADER_LEN + PUBKEY_LEN) # p
    \/ Slice(data, SIG_START, SIG_START + SIG_LEN) # s

\* The argument comparison of check_data comparing the public key only over
\* the 32 bytes of the region
args_mismatch_pubkey_prefix(data, m, s, p) ==
    \/ \E i \in 1..PUBKEY_LEN : i <= Len(p) /\ data[HEADER_LEN + i] # p[i]
    \/ Slice(data, BODY_START, Len(data)) # m
    \/ Slice(data, SIG_START, SIG_START + SIG_LEN) # s

\* The argument condition: a body region differs from the expected slice;
\* slices of different lengths are different
args_mismatch(data, m, s, p) ==
    LET data_pubkey == Slice(data, HEADER_LEN, HEADER_LEN + PUBKEY_LEN)
        data_sig    == Slice(data, SIG_START, SIG_START + SIG_LEN)
        data_msg    == Slice(data, BODY_START, Len(data))
    IN
    \/ data_pubkey # p
    \/ data_msg    # m
    \/ data_sig    # s

\* The result of a call: its outcome and the ranges of data it read.
\* overflow_checks is the build's setting: u16 additions panic on overflow
\* when it is on and wrap when it is off.
check_data(data, m, s, p, overflow_checks) ==
    LET reads == PerformedReads(data)
        done(o) == [outcome |-> o, reads |-> reads]
    IN
    IF \E r \in reads : ~SliceInBounds(data, r) THEN done(PanicIndex)
    ELSE
    LET exp_public_key_offset == HEADER_LEN
        sum1 == exp_public_key_offset + as_u16(Len(p))
        exp_signature_offset == as_u16(sum1)
        sum2 == exp_signature_offset + as_u16(Len(s))
        exp_message_data_offset == as_u16(sum2)
        exp_num_signatures == 1
    IN
    IF overflow_checks /\ sum1 > U16_MAX THEN done(PanicOverflow)
    ELSE IF overflow_checks /\ sum2 > U16_MAX THEN done(PanicOverflow)
    ELSE IF ~try_into_u16_fits(Len(m)) THEN done(PanicUnwrap)
    ELSE
    LET exp_message_data_size == Len(m) IN
    IF header_mismatch(data, exp_num_signatures, exp_signature_offset,
                       exp_public_key_offset, exp_message_data_offset,
                       exp_message_data_size)
    THEN done(SigVerificationFailed)
    ELSE IF args_mismatch(data, m, s, p)
    THEN done(SigVerificationFailed)
    ELSE done(Ok)

----------------------------------------------------------------------------
(* utils::sig_verify *)

\* The coarse check of sig_verify without the data length
shape_mismatch_no_length(ix, m) ==
    \/ ix.program_id # ED25519_ID
    \/ Len(ix.accounts) # 0

\* The coarse check of sig_verify without the program id
shape_mismatch_no_program_id(ix, m) ==
    \/ Len(ix.accounts) # 0
    \/ Len(ix.data) # HEADER_LEN + SIG_LEN + PUBKEY_LEN + Len(m)

\* The coarse check of sig_verify without the accounts
shape_mismatch_no_accounts(ix, m) ==
    \/ ix.program_id # ED25519_ID
    \/ Len(ix.data) # HEADER_LEN + SIG_LEN + PUBKEY_LEN + Len(m)

\* The coarse check: program id, no accounts, data of the expected size
shape_mismatch(ix, m) ==
    \/ ix.program_id # ED25519_ID
    \/ Len(ix.accounts) # 0
    \/ Len(ix.data) # HEADER_LEN + SIG_LEN + PUBKEY_LEN + Len(m)

sig_verify(ix, m, s, p, overflow_checks) ==
    IF shape_mismatch(ix, m)
    THEN [outcome |-> SigVerificationFailed, reads |-> {}]
    ELSE check_data(ix.data, m, s, p, overflow_checks)

----------------------------------------------------------------------------
(* signatures::verify *)

\* load_instruction_at_checked(index, sysvar): the instruction of the
\* transaction at that index, or an error when there is none
load_instruction_at_checked(index, instructions) ==
    IF index < Len(instructions)
    THEN [is_ok |-> TRUE,  ix |-> instructions[index + 1]]
    ELSE [is_ok |-> FALSE, ix |-> [program_id |-> "", accounts |-> <<>>, data |-> <<>>]]

\* The index of the last of two instructions
LAST_OF_TWO_INDEX == 2 - 1

\* The index verify passes to load_instruction_at_checked
VERIFY_IX_INDEX == 0

verify(instructions, m, s, p, overflow_checks) ==
    LET loaded == load_instruction_at_checked(VERIFY_IX_INDEX, instructions) IN
    IF ~loaded.is_ok
    THEN [outcome |-> InvalidArgument, reads |-> {}]
    ELSE sig_verify(loaded.ix, m, s, p, overflow_checks)

----------------------------------------------------------------------------
(* Inputs *)

MaxMsgLen == 2
MaxExtend == 2

Zeros(n)   == [i \in 1..n |-> 0]
Ramp(n)    == [i \in 1..n |-> i]
Fill(n, b) == [i \in 1..n |-> b]

\* b"hello"
Hello == <<104, 101, 108, 108, 111>>

SmallMsgs == {Fill(n, 7) : n \in 0..MaxMsgLen} \cup {Hello}

\* A message one byte too long for the u16 message-size field
OversizedMsg == Zeros(U16_MAX + 1)

\* Values of the types verify takes: [u8; 64] and [u8; 32]
Sigs    == {Zeros(SIG_LEN), Ramp(SIG_LEN)}
Pubkeys == {Zeros(PUBKEY_LEN), Fill(PUBKEY_LEN, U8_MAX)}

\* Slices of other lengths, which only a direct caller of sig_verify can pass
OddSigs    == {Zeros(SIG_LEN - 1), Zeros(SIG_LEN + 1), Zeros(U16_MAX + 1 + SIG_LEN)}
OddPubkeys == {Zeros(PUBKEY_LEN - 1), Zeros(PUBKEY_LEN + 1),
               Zeros(U16_MAX + 1 + PUBKEY_LEN), Zeros(U16_MAX + 1 - HEADER_LEN)}

\* The first n bytes of b, padded with zeros when b is shorter
Fit(b, n) == [i \in 1..n |-> IF i <= Len(b) THEN b[i] ELSE 0]

\* A 16-bit field as the Ed25519Program layout stores it: low byte first,
\* of the value reduced to 16 bits
Field16(n) == <<(n % 65536) % 256, (n % 65536) \div 256>>

\* The 16-byte header the Ed25519Program layout has for regions of these lengths
Header(plen, slen, mlen) ==
       <<1, 0>>
    \o Field16(16 + plen)
    \o Field16(65535)
    \o Field16(16)
    \o Field16(65535)
    \o Field16(16 + plen + slen)
    \o Field16(mlen)
    \o Field16(65535)

\* Instruction data for (public key, signature, message): header, then the
\* 32-byte and 64-byte regions, then the message
Layout(p, s, m) ==
    Header(Len(p), Len(s), Len(m)) \o Fit(p, PUBKEY_LEN) \o Fit(s, SIG_LEN) \o m

Instruction(id, accounts, data) ==
    [program_id |-> id, accounts |-> accounts, data |-> data]

\* The instruction that calls this program's verify
SelfIx == Instruction(PROGRAM_ID, <<"sender", "ix_sysvar">>, <<>>)

\* Candidate instructions carrying this data
IxVariants(data) ==
    { Instruction(ED25519_ID, <<>>, data),
      Instruction(PROGRAM_ID, <<>>, data),
      Instruction(ED25519_ID, <<"sender">>, data) }

\* Transactions: the candidate before or after the call of this program
TxShapes(ix) == { <<ix, SelfIx>>, <<SelfIx, ix>> }

\* Payloads built for a triple that differs from the expected one in at most
\* one of message, signature and public key
NearPayloads(m, s, p) ==
         {Layout(p, s, m2) : m2 \in SmallMsgs}
    \cup {Layout(p, s2, m) : s2 \in Sigs}
    \cup {Layout(p2, s, m) : p2 \in Pubkeys}

InputsFor(m, s, p, datas) ==
    { [tx |-> t, msg |-> m, sig |-> s, pubkey |-> p] :
        t \in UNION { TxShapes(ix) : ix \in UNION { IxVariants(d) : d \in datas } } }

\* Calls that verify can receive: sig and pubkey have their array lengths
TypedInputs ==
    UNION { InputsFor(t[1], t[2], t[3], NearPayloads(t[1], t[2], t[3])) :
              t \in SmallMsgs \X Sigs \X Pubkeys }

\* Direct calls of sig_verify with a signature or public-key slice of another
\* length; the data is laid out for the slices as given, so its header carries
\* the offsets check_data derives from the slices' lengths
SliceInputs ==
    UNION { InputsFor(t[1], t[2], t[3], {Layout(t[3], t[2], t[1])}) :
              t \in { u \in {<<>>, Hello} \X (Sigs \cup OddSigs) \X (Pubkeys \cup OddPubkeys) :
                        u[2] \in OddSigs \/ u[3] \in OddPubkeys } }

\* Calls whose expected message does not fit the u16 size field
OversizedInputs ==
    InputsFor(OversizedMsg, Zeros(SIG_LEN), Zeros(PUBKEY_LEN),
              { Layout(Zeros(PUBKEY_LEN), Zeros(SIG_LEN), OversizedMsg),
                Layout(Zeros(PUBKEY_LEN), Zeros(SIG_LEN), <<>>) })

Inputs == TypedInputs \cup SliceInputs \cup OversizedInputs

NoRet    == [outcome |-> "none", reads |-> {}]
NoCall   == [fn |-> "none", index |-> 0]
NoChange == [kind |-> "none", at |-> 0]

----------------------------------------------------------------------------
(* The state machine *)

Init ==
    /\ \E in \in Inputs :
          /\ tx = in.tx
          /\ msg = in.msg
          /\ sig = in.sig
          /\ pubkey = in.pubkey
    /\ pc = "ready"
    /\ call = NoCall
    /\ ret = NoRet
    /\ change = NoChange

\* After the payload was changed, the same call is made again
Repeats(c) == change.kind = "none" \/ call = c

\* The program is invoked: verify(ctx, msg, sig, pubkey).  sig and pubkey
\* are arrays, so only values of their lengths can be passed.  The build
\* either checks integer overflow or wraps.
Verify ==
    LET c == [fn |-> "verify", index |-> VERIFY_IX_INDEX] IN
    /\ pc = "ready"
    /\ Len(sig) = SIG_LEN
    /\ Len(pubkey) = PUBKEY_LEN
    /\ Repeats(c)
    /\ \E overflow_checks \in BOOLEAN :
          ret' = verify(tx, msg, sig, pubkey, overflow_checks)
    /\ call' = c
    /\ pc' = "done"
    /\ UNCHANGED <<tx, msg, sig, pubkey, change>>

\* utils::sig_verify is called directly on one instruction of the transaction
SigVerify ==
    /\ pc = "ready"
    /\ \E k \in 0..(Len(tx) - 1) :
          LET c == [fn |-> "sig_verify", index |-> k] IN
          /\ Repeats(c)
          /\ \E overflow_checks \in BOOLEAN :
                ret' = sig_verify(tx[k + 1], msg, sig, pubkey, overflow_checks)
          /\ call' = c
    /\ pc' = "done"
    /\ UNCHANGED <<tx, msg, sig, pubkey, change>>

\* The instruction the last call inspected
Inspected == tx[call.index + 1]

WithData(d) == [tx EXCEPT ![call.index + 1].data = d]

\* sig_verify has accepted the payload as it was built, and nothing was
\* changed since
Accepted ==
    /\ pc = "done"
    /\ call.fn = "sig_verify"
    /\ ret.outcome = Ok
    /\ change = NoChange

\* The values a byte can be changed to: every other value
CorruptValues(i, old) == Byte \ {old}

\* An accepted payload has one byte changed to a different value
CorruptByte ==
    /\ Accepted
    /\ \E i \in 0..(Len(Inspected.data) - 1) :
          \E b \in CorruptValues(i, Inspected.data[i + 1]) :
            /\ tx' = WithData([Inspected.data EXCEPT ![i + 1] = b])
            /\ change' = [kind |-> "corrupt", at |-> i]
    /\ pc' = "ready"
    /\ ret' = NoRet
    /\ UNCHANGED <<msg, sig, pubkey, call>>

\* An accepted payload is cut to its first n bytes
Truncate ==
    /\ Accepted
    /\ \E n \in 0..(Len(Inspected.data) - 1) :
          /\ tx' = WithData(SubSeq(Inspected.data, 1, n))
          /\ change' = [kind |-> "truncate", at |-> n]
    /\ pc' = "ready"
    /\ ret' = NoRet
    /\ UNCHANGED <<msg, sig, pubkey, call>>

\* An accepted payload has up to MaxExtend zero bytes appended
Extend ==
    /\ Accepted
    /\ \E n \in 1..MaxExtend :
          /\ tx' = WithData(Inspected.data \o Zeros(n))
          /\ change' = [kind |-> "extend", at |-> Len(Inspected.data) + n]
    /\ pc' = "ready"
    /\ ret' = NoRet
    /\ UNCHANGED <<msg, sig, pubkey, call>>

Next ==
    \/ Verify
    \/ SigVerify
    \/ CorruptByte
    \/ Truncate
    \/ Extend

Spec == Init /\ [][Next]_vars

----------------------------------------------------------------------------
(* What the claims speak of *)

\* The little-endian 16-bit value at byte offset off
LE16(data, off) == data[off + 1] + 256 * data[off + 2]

\* The instruction is a single-signature Ed25519 instruction over (m, s, p):
\* every condition of the layout table, field by field
WellFormed(ix, m, s, p) ==
    /\ ix.program_id = ED25519_ID
    /\ ix.accounts = <<>>
    /\ Len(ix.data) = 16 + 64 + 32 + Len(m)
    /\ ix.data[1] = 1
    /\ ix.data[2] = 0
    /\ LE16(ix.data, 2) = 48
    /\ LE16(ix.data, 4) = 65535
    /\ LE16(ix.data, 6) = 16
    /\ LE16(ix.data, 8) = 65535
    /\ LE16(ix.data, 10) = 112
    /\ LE16(ix.data, 12) = Len(m)
    /\ LE16(ix.data, 14) = 65535
    /\ \A i \in 0..31 : ix.data[16 + i + 1] = p[i + 1]
    /\ \A i \in 0..63 : ix.data[48 + i + 1] = s[i + 1]
    /\ \A i \in 0..(Len(m) - 1) : ix.data[112 + i + 1] = m[i + 1]

\* The payload of the wire-format table for a message shorter than 65536 bytes
WireFormat(m, s, p) ==
    <<1, 0, 48, 0, 255, 255, 16, 0, 255, 255, 112, 0,
      Len(m) % 256, Len(m) \div 256, 255, 255>> \o p \o s \o m

\* sig_verify has returned, called with a 64-byte sig and a 32-byte pubkey
SigVerifyReturned == pc = "done" /\ call.fn = "sig_verify"

ArrayLengths == Len(sig) = 64 /\ Len(pubkey) = 32

Rejected == ret.outcome = SigVerificationFailed

\* C1: for a 64-byte sig and a 32-byte pubkey, sig_verify returns Ok if and
\* only if the program id is the Ed25519 program's, there are no accounts,
\* the data has length 16+64+32+len(msg), the nine header fields have their
\* expected values and the three body regions equal pubkey, sig and msg.
C1_OkIffWellFormed ==
    (SigVerifyReturned /\ ArrayLengths)
        => (ret.outcome = Ok <=> WellFormed(Inspected, msg, sig, pubkey))

\* A one-byte message was accepted
C1_Witness ==
    /\ SigVerifyReturned /\ ArrayLengths
    /\ ret.outcome = Ok
    /\ Len(msg) = 1
    /\ WellFormed(Inspected, msg, sig, pubkey)

\* C2: an instruction with the Ed25519 program id, no accounts and the data
\* of the wire-format table for (msg, sig, pubkey) is accepted by sig_verify
\* called with the same msg, sig and pubkey.
C2_Completeness ==
    ( /\ SigVerifyReturned /\ ArrayLengths
      /\ Len(msg) < 65536
      /\ Inspected = Instruction(ED25519_ID, <<>>, WireFormat(msg, sig, pubkey)) )
        => ret.outcome = Ok

\* The example: b"hello", 64 zero bytes, 32 zero bytes, 117 bytes of data
C2_Witness ==
    /\ SigVerifyReturned
    /\ msg = Hello /\ sig = Zeros(64) /\ pubkey = Zeros(32)
    /\ Inspected = Instruction(ED25519_ID, <<>>, WireFormat(msg, sig, pubkey))
    /\ Len(Inspected.data) = 117
    /\ LE16(Inspected.data, 12) = 5
    /\ ret.outcome = Ok

\* C3: after one byte at an offset 0..15 of an accepted payload is changed
\* to a different value, sig_verify returns SigVerificationFailed.
C3_HeaderByteCorrupted ==
    (SigVerifyReturned /\ change.kind = "corrupt" /\ change.at < 16) => Rejected

\* The low byte of message_length of the example was changed, and the call
\* failed
C3_Witness ==
    /\ SigVerifyReturned /\ change = [kind |-> "corrupt", at |-> 12]
    /\ msg = Hello
    /\ Inspected.data[13] # 5
    /\ Rejected

\* C4: after one byte of the public-key, signature or message region of an
\* accepted payload is changed to a different value, sig_verify returns
\* SigVerificationFailed.
C4_BodyByteCorrupted ==
    ( /\ SigVerifyReturned /\ change.kind = "corrupt"
      /\ change.at >= 16 /\ change.at < 112 + Len(msg) ) => Rejected

\* The last byte of the message was changed, and the call failed
C4_Witness ==
    /\ SigVerifyReturned /\ change.kind = "corrupt"
    /\ Len(msg) > 0
    /\ change.at = 112 + Len(msg) - 1
    /\ Rejected

\* C5: when the data length differs from 16+64+32+len(msg), sig_verify
\* returns SigVerificationFailed without reading any byte of the data; and
\* every read check_data makes when reached through sig_verify is in bounds.
C5_LengthCheckedBeforeReads ==
    SigVerifyReturned =>
        /\ Len(Inspected.data) # 16 + 64 + 32 + Len(msg)
              => (Rejected /\ ret.reads = {})
        /\ \A r \in ret.reads : r[1] <= r[2] /\ r[2] <= Len(Inspected.data)
        /\ ret.outcome # PanicIndex

\* An accepted payload cut to zero length was rejected
C5_Witness ==
    /\ SigVerifyReturned /\ change.kind = "truncate"
    /\ Inspected.data = <<>>
    /\ Rejected /\ ret.reads = {}

\* C6: a call of sig_verify (with a 64-byte sig and a 32-byte pubkey) ends
\* either in Ok or in SigVerificationFailed, never in a panic, also when
\* the message does not fit the 16-bit message_length field.
C6_OkOrSigVerificationFailed ==
    (SigVerifyReturned /\ ArrayLengths)
        => ret.outcome \in {Ok, SigVerificationFailed}

\* C7: an instruction whose program id is not the Ed25519 program's is
\* rejected by sig_verify, whatever its data.
C7_WrongProgramId ==
    (SigVerifyReturned /\ Inspected.program_id # ED25519_ID) => Rejected

\* The data is byte-exact for (msg, sig, pubkey), and only the program id
\* is wrong
C7_Witness ==
    /\ SigVerifyReturned /\ ArrayLengths
    /\ Inspected.program_id # ED25519_ID
    /\ Inspected.accounts = <<>>
    /\ Inspected.data = WireFormat(msg, sig, pubkey)
    /\ Rejected

\* C8: an instruction with one or more accounts is rejected by sig_verify.
C8_HasAccounts ==
    (SigVerifyReturned /\ Len(Inspected.accounts) >= 1) => Rejected

\* The program id and every data byte are right, and there is an account
C8_Witness ==
    /\ SigVerifyReturned /\ ArrayLengths
    /\ Inspected.program_id = ED25519_ID
    /\ Len(Inspected.accounts) >= 1
    /\ Inspected.data = WireFormat(msg, sig, pubkey)
    /\ Rejected

\* C9: verify returns Ok only if the transaction has an instruction at
\* index 0 and that instruction is a well-formed Ed25519 instruction over
\* (msg, sig, pubkey), whatever the other instructions are.
C9_VerifyInspectsInstructionZero ==
    (pc = "done" /\ call.fn = "verify" /\ ret.outcome = Ok)
        => (Len(tx) >= 1 /\ WellFormed(tx[1], msg, sig, pubkey))

\* verify failed although the instruction at index 1 is well formed
C9_Witness ==
    /\ pc = "done" /\ call.fn = "verify"
    /\ Len(tx) = 2
    /\ WellFormed(tx[2], msg, sig, pubkey)
    /\ ~WellFormed(tx[1], msg, sig, pubkey)
    /\ Rejected

\* C10: sig_verify never returns Ok when sig is not 64 bytes or pubkey is
\* not 32 bytes long, so an accepted payload has signature_offset 48 and
\* message_offset 112.
C10_OkImpliesArrayLengths ==
    (SigVerifyReturned /\ ret.outcome = Ok)
        => /\ Len(sig) = 64
           /\ Len(pubkey) = 32
           /\ LE16(Inspected.data, 2) = 48
           /\ LE16(Inspected.data, 10) = 112

\* A 33-byte pubkey, with a header carrying the offsets derived from it
\* (49 and 113) and data of the expected length, was rejected
C10_Witness ==
    /\ SigVerifyReturned
    /\ Len(pubkey) = 33 /\ Len(sig) = 64
    /\ Inspected.program_id = ED25519_ID /\ Inspected.accounts = <<>>
    /\ Len(Inspected.data) = 16 + 64 + 32 + Len(msg)
    /\ LE16(Inspected.data, 2) = 49
    /\ LE16(Inspected.data, 10) = 113
    /\ Rejected

====
